---- MODULE Spec2Model ----
\* MsTeamsAdapter (src/unnamed/part_000): outbound dispatch (send, reply,
\* sendToRoom, sendWithDelegate), the conversation reference cache and the
\* ingress / upgrade handlers of run(), as interleaved asynchronous invocations
\* on a single-threaded event loop.  An invocation runs atomically up to its
\* next await; the platform client (createConversationAsync,
\* continueConversation, process, sendActivity) is the environment and may
\* succeed or throw at every call.
EXTENDS Integers, Sequences, FiniteSets, TLC

\* ---------------------------------------------------------------- bounds
MaxTasks == 2      \* invocations (send / reply / sendToRoom / POST / upgrade)
MaxLen == 2        \* strings passed to one invocation
MaxConv == 2       \* distinct conversation / channel identities
MaxChars == 5      \* characters of a string whose classification is examined
MaxName == 2       \* characters of a robot name or alias
MaxText == 4       \* characters of a text handed to #ensureMentionPrefix
MaxRaw == 3        \* characters and tags of the text of an inbound activity

Tasks == 1..MaxTasks
Ids == 1..MaxConv
\* A string is the sequence of its characters.  Chars holds what the
\* classification of lines 73-88 looks at: the characters of a closing tag, the
\* double quote and a digit (the JSON values that can be written with them are
\* numbers and strings), and a letter.
Chars == {"<", "/", ">", "\"", "1", "b"}
Texts == UNION {[1..n -> Chars] : n \in 0..MaxChars}
\* The strings an invocation is given: the prefixes of one script.  What a
\* string says never decides which path an invocation takes, only its payload.
\* The script reads  "</b>"  <b>1</b>  b  11 .
Script == << <<"\"", "<", "/", "b", ">", "\"">>,
            <<"<", "b", ">", "1", "<", "/", "b", ">">>,
            <<"b">>,
            <<"1", "1">> >>
Messages == {Script[i] : i \in 1..Len(Script)}
StringLists == {[i \in 1..n |-> Script[((i - 1) % Len(Script)) + 1]] : n \in 0..MaxLen}

\* What one platform sendActivity call can do: return a result, return
\* nothing (a falsy response), throw with statusCode 401, throw anything else.
SendOutcomes == {"ok", "empty", "e401", "err"}

VARIABLES
    conversationReferences,  \* this.conversationReferences: id -> reference
    task,                    \* every invocation's frame
    lastObserved             \* history: what the latest observation of an id wrote

vars == <<conversationReferences, task, lastObserved>>

NoRef == [kind |-> "none", conv |-> 0, by |-> 0]

\* TurnContext.getConversationReference(context.activity) of the turn of task t
IngressReference(c, t) == [kind |-> "reference", conv |-> c, by |-> t]

\* turnContext.activity.conversation of the conversation created for task t
CreatedConversation(c, t) == [kind |-> "conversation", conv |-> c, by |-> t]

IdleTask ==
    [pc |-> "idle", op |-> "none", room |-> 0, user |-> FALSE, path |-> "none",
     strings |-> <<>>, lookups |-> 0, next |-> 0, inflight |-> {},
     outcomes |-> <<>>, responses |-> <<>>, ret |-> <<>>, error |-> "none",
     emitted |-> <<>>, created |-> 0, seed |-> <<>>, conv |-> 0,
     http |-> <<>>, sent |-> <<>>, args |-> <<>>, out |-> <<>>]

Init ==
    /\ conversationReferences = [c \in Ids |-> NoRef]
    /\ task = [t \in Tasks |-> IdleTask]
    /\ lastObserved = [c \in Ids |-> NoRef]

\* Invocations are numbered in the order they are called.
CanCall(t) ==
    /\ task[t].pc = "idle"
    /\ \A u \in Tasks : u < t => task[u].pc # "idle"

\* strings.join('\n')
RECURSIVE Join(_)
Join(strs) ==
    IF Len(strs) = 0 THEN <<>>
    ELSE IF Len(strs) = 1 THEN strs[1]
    ELSE strs[1] \o <<"\n">> \o Join(Tail(strs))

\* this.emit(name, descriptor, responses)
Emit(f, name, desc) ==
    Append(f.emitted, [name |-> name, desc |-> desc, results |-> f.responses])

\* the envelope handed to send / reply, and the { room } literal of line 106
Envelope(f) == [shape |-> "envelope", room |-> f.room, user |-> f.user]
RoomOnly(f) == [shape |-> "room", room |-> f.room, user |-> FALSE]

\* a sendActivity call that ended in an exception
Threw(o) == o \in {"e401", "err"}

\* ------------------------------------------------ the activity of a string
\* what JSON.parse throws on text that is not JSON
SyntaxError == <<"SyntaxError">>

\* the value of a run of digits
RECURSIVE NumberOf(_)
NumberOf(s) ==
    IF s = <<>> THEN 0 ELSE 10 * NumberOf(SubSeq(s, 1, Len(s) - 1)) + 1

\* lines 82 / 126: JSON.parse(message).  Over Chars and the newline of a join,
\* the JSON texts are the numbers (one or more digits) and the strings (two
\* double quotes around characters that are neither a quote nor a newline);
\* the parsed value is the number, or the characters between the quotes.
JsonParse(s) ==
    IF Len(s) >= 1 /\ \A i \in 1..Len(s) : s[i] = "1"
    THEN <<"number", NumberOf(s)>>
    ELSE IF /\ Len(s) >= 2
            /\ s[1] = "\"" /\ s[Len(s)] = "\""
            /\ \A i \in 2..(Len(s) - 1) : s[i] \notin {"\"", "\n"}
    THEN <<"string", SubSeq(s, 2, Len(s) - 1)>>
    ELSE SyntaxError

\* lines 77 / 121: /<\/(.*)>/.test(message): a "</", then any characters
\* other than a newline, then a ">"
HasClosingTag(s) ==
    \E i \in 1..Len(s), j \in 1..Len(s) :
        /\ i + 2 <= j
        /\ s[i] = "<" /\ s[i + 1] = "/" /\ s[j] = ">"
        /\ \A k \in (i + 2)..(j - 1) : s[k] # "\n"

\* what sendActivity is handed: a text activity (MessageFactory.text, with its
\* textFormat) or an activity of one adaptive card attachment and no text
NoText == <<"no text">>
NoCard == <<"no card">>
TextActivity(s, format) ==
    [kind |-> "text", text |-> s, textFormat |-> format, card |-> NoCard]
CardActivity(card) ==
    [kind |-> "card", text |-> NoText, textFormat |-> "unset", card |-> card]

\* (mutant) the tag test decides first: tagged text goes out as XML even when
\* it is JSON
TeamsMessage_TagFirst(message) ==
    IF HasClosingTag(message) THEN TextActivity(message, "xml")
    ELSE IF JsonParse(message) # SyntaxError THEN CardActivity(JsonParse(message))
    ELSE TextActivity(message, "markdown")

\* (mutant) the tag test is left out: every text goes out as markdown
TeamsMessage_NoTagTest(message) ==
    IF JsonParse(message) # SyntaxError THEN CardActivity(JsonParse(message))
    ELSE TextActivity(message, "markdown")

\* lines 73-88 / 117-132: the activity built for one string
TeamsMessage(message) ==
    LET asText == TextActivity(message,
                               IF HasClosingTag(message) THEN "xml" ELSE "markdown")
        card == JsonParse(message)
    IN  IF card # SyntaxError THEN CardActivity(card) ELSE asText

\* (mutant) the joined text is classified as a string of the loop is
PlainActivity_Classified(s) == TeamsMessage(s)

\* line 64: turnContext.sendActivity(text) with a bare string makes a text
\* activity on which no textFormat is set
PlainActivity(s) == TextActivity(s, "unset")

\* ------------------------------------------------------------ sendToRoom
\* lines 44-45: the lookup under room.channelData.channel.id
Lookup(refs, room) == refs[room]

\* lines 40-72: the synchronous head of sendToRoom, up to its first await
EnterSendToRoom(f, room, strs) ==
    LET r == Lookup(conversationReferences, room) IN
    IF r = NoRef
    THEN [f EXCEPT !.pc = "creating", !.path = "miss", !.room = room,
                   !.strings = strs, !.lookups = @ + 1, !.seed = Join(strs)]
    ELSE [f EXCEPT !.pc = "resuming", !.path = "hit", !.room = room,
                   !.strings = strs, !.lookups = @ + 1]

CallSendToRoom(t, room, strs) ==
    /\ CanCall(t)
    /\ task' = [task EXCEPT ![t] =
                  EnterSendToRoom([IdleTask EXCEPT !.op = "sendToRoom"], room, strs)]
    /\ UNCHANGED <<conversationReferences, lastObserved>>

\* line 57: createConversationAsync rejects before the callback is reached
CreateThrows(t) ==
    /\ task[t].pc = "creating"
    /\ task' = [task EXCEPT ![t].pc = "raised", ![t].error = "create"]
    /\ UNCHANGED <<conversationReferences, lastObserved>>

\* (mutant) the confirmation callback writes nothing
CreationStore_Skip(refs, c, r) == refs

\* (mutant) an entry already present is kept: the first write wins
CreationStore_KeepFirst(refs, c, r) ==
    IF refs[c] = NoRef THEN [refs EXCEPT ![c] = r] ELSE refs

\* line 63: the confirmation callback's write, keyed by the new conversation's id
CreationStore(refs, c, r) == [refs EXCEPT ![c] = r]

\* lines 62-64: the platform confirms conversation c and runs the callback up
\* to its await of turnContext.sendActivity(strings.join('\n'))
CreateConfirmed(t, c) ==
    /\ task[t].pc = "creating"
    /\ conversationReferences' =
           CreationStore(conversationReferences, c, CreatedConversation(c, t))
    /\ lastObserved' = [lastObserved EXCEPT ![c] = CreatedConversation(c, t)]
    /\ task' = [task EXCEPT ![t].pc = "seeding", ![t].created = c,
                            ![t].sent = Append(@, PlainActivity(Join(task[t].strings)))]

\* lines 64-68: the send inside the callback completes.  A throwing send rejects
\* the callback; the client either rejects createConversationAsync with it
\* (nothing in sendToRoom catches that) or handles it as a turn error.
SeedSent(t, o, propagates) ==
    /\ task[t].pc = "seeding"
    /\ task' = [task EXCEPT ![t] =
                  IF Threw(o) /\ propagates
                  THEN [@ EXCEPT !.pc = "raised", !.error = "send"]
                  ELSE [@ EXCEPT !.pc = "done", !.ret = <<>>]]
    /\ UNCHANGED <<conversationReferences, lastObserved>>

\* line 72: continueConversation rejects without running the callback
ResumeThrows(t) ==
    /\ task[t].pc = "resuming"
    /\ task' = [task EXCEPT ![t].pc = "raised", ![t].error = "resume"]
    /\ UNCHANGED <<conversationReferences, lastObserved>>

\* line 72: continueConversation runs the callback on the resumed conversation
Resumed(t) ==
    /\ task[t].pc = "resuming"
    /\ task' = [task EXCEPT ![t].pc = "loop"]
    /\ UNCHANGED <<conversationReferences, lastObserved>>

\* ------------------------------------------- the per-string delivery loop
\* (mutant) the sends are started without awaiting the previous one
CanStartSend_NoAwait(f) ==
    /\ f.pc = "loop"
    /\ f.next < Len(f.strings)

\* lines 73 / 116: the loop takes its next string only when the awaited
\* sendActivity of the previous one has settled
CanStartSend(f) ==
    /\ f.pc = "loop"
    /\ f.inflight = {}
    /\ f.next < Len(f.strings)

\* lines 74-92 / 117-134: string next+1 is classified and handed to sendActivity
StartSend(t) ==
    /\ CanStartSend(task[t])
    /\ task' = [task EXCEPT ![t].next = @ + 1, ![t].inflight = @ \cup {task[t].next + 1},
                            ![t].sent = Append(@, TeamsMessage(task[t].strings[task[t].next + 1]))]
    /\ UNCHANGED <<conversationReferences, lastObserved>>

\* lines 96-101 / 138-143: both kinds of exception are caught and logged, the
\* 401 with a configuration hint; they differ in the log line only
Settled(o) == IF Threw(o) THEN "threw" ELSE o

\* (mutant) no try / catch around sendActivity: an exception ends the invocation
Settle_Rethrow(f, k, o) ==
    IF Threw(o)
    THEN [f EXCEPT !.inflight = @ \ {k}, !.pc = "raised", !.error = "send",
                   !.outcomes = Append(@, [msg |-> k, outcome |-> Settled(o)])]
    ELSE [f EXCEPT !.inflight = @ \ {k},
                   !.outcomes = Append(@, [msg |-> k, outcome |-> Settled(o)]),
                   !.responses = IF o = "ok" THEN Append(@, k) ELSE @]

\* (mutant) no `if (response)` guard: whatever sendActivity returned is pushed
Settle_PushAlways(f, k, o) ==
    [f EXCEPT !.inflight = @ \ {k},
              !.outcomes = Append(@, [msg |-> k, outcome |-> Settled(o)]),
              !.responses = IF Threw(o) THEN @ ELSE Append(@, k)]

\* lines 92-102 / 134-144: what the loop does with one settled sendActivity;
\* the platform's result for string k is written k
Settle(f, k, o) ==
    [f EXCEPT !.inflight = @ \ {k},
              !.outcomes = Append(@, [msg |-> k, outcome |-> Settled(o)]),
              !.responses = IF o = "ok" THEN Append(@, k) ELSE @]

CompleteSend(t, k, o) ==
    /\ task[t].pc = "loop"
    /\ k \in task[t].inflight
    /\ task' = [task EXCEPT ![t] = Settle(@, k, o)]
    /\ UNCHANGED <<conversationReferences, lastObserved>>

LoopDone(f) ==
    /\ f.pc = "loop"
    /\ f.inflight = {}
    /\ f.next = Len(f.strings)

\* lines 104-107: the callback returns, continueConversation resolves, the
\* `send` event is emitted and the responses are returned
ReturnFromRoom(f) ==
    [f EXCEPT !.pc = "done", !.emitted = Emit(f, "send", RoomOnly(f)),
              !.ret = f.responses]

FinishRoom(t) ==
    /\ LoopDone(task[t])
    /\ task[t].path = "hit"
    /\ task' = [task EXCEPT ![t] = ReturnFromRoom(@)]
    /\ UNCHANGED <<conversationReferences, lastObserved>>

\* ---------------------------------------------------------- send / reply
\* (mutant) the test forgets envelope.user
RoomPush_IgnoreUser(room, user) == room # 0

\* line 31: envelope.room && !envelope.user
RoomPush(room, user) == room # 0 /\ ~user

\* lines 29-35: the synchronous head of send.  `user` says whether
\* envelope.user is there; a user without a message handle makes every
\* delegate.sendActivity of the loop throw, which is one of the loop's outcomes.
EnterSend(f, room, user, strs) ==
    IF RoomPush(room, user)
    THEN EnterSendToRoom([f EXCEPT !.user = user], room, strs)
    ELSE IF ~user
    THEN [f EXCEPT !.pc = "raised", !.error = "type", !.room = room,
                   !.user = user, !.strings = strs]
    ELSE [f EXCEPT !.pc = "loop", !.path = "direct", !.room = room,
                   !.user = user, !.strings = strs]

CallSend(t, room, user, strs) ==
    /\ CanCall(t)
    /\ task' = [task EXCEPT ![t] =
                  EnterSend([IdleTask EXCEPT !.op = "send"], room, user, strs)]
    /\ UNCHANGED <<conversationReferences, lastObserved>>

\* line 110: reply reads envelope.user.message whatever the envelope holds
EnterReply(f, room, user, strs) ==
    IF ~user
    THEN [f EXCEPT !.pc = "raised", !.error = "type", !.room = room,
                   !.user = user, !.strings = strs]
    ELSE [f EXCEPT !.pc = "loop", !.path = "direct", !.room = room,
                   !.user = user, !.strings = strs]

CallReply(t, room, user, strs) ==
    /\ CanCall(t)
    /\ task' = [task EXCEPT ![t] =
                  EnterReply([IdleTask EXCEPT !.op = "reply"], room, user, strs)]
    /\ UNCHANGED <<conversationReferences, lastObserved>>

\* (mutant) reply emits `send` as send does
ReturnFromDirect_AlwaysSend(f) ==
    [f EXCEPT !.pc = "done", !.emitted = Emit(f, "send", Envelope(f)),
              !.ret = f.responses]

\* lines 35-37 / 110-112: sendWithDelegate returned; emit and return
ReturnFromDirect(f) ==
    [f EXCEPT !.pc = "done", !.emitted = Emit(f, f.op, Envelope(f)),
              !.ret = f.responses]

FinishDirect(t) ==
    /\ LoopDone(task[t])
    /\ task[t].path = "direct"
    /\ task' = [task EXCEPT ![t] = ReturnFromDirect(@)]
    /\ UNCHANGED <<conversationReferences, lastObserved>>

\* ------------------------------------------------------ mention prefix
\* Robot names and texts, as sequences of characters: two cases of a letter,
\* the regular expression metacharacter ".", "@" and the blank.
NameChars == {"b", "B", "."}
RobotNames == UNION {[1..n -> NameChars] : n \in 0..MaxName}
MentionChars == {"b", "B", ".", "@", " "}
MentionTexts == UNION {[1..n -> MentionChars] : n \in 0..MaxText}

\* what String.prototype.trim removes
IsSpace(c) == c \in {" ", "\n"}

RECURSIVE TrimStart(_)
TrimStart(s) ==
    IF s # <<>> /\ IsSpace(s[1]) THEN TrimStart(Tail(s)) ELSE s

RECURSIVE TrimEnd(_)
TrimEnd(s) ==
    IF s # <<>> /\ IsSpace(s[Len(s)]) THEN TrimEnd(SubSeq(s, 1, Len(s) - 1)) ELSE s

Trim(s) == TrimEnd(TrimStart(s))

\* \w of a regular expression: [A-Za-z0-9_]
IsWordChar(c) == c \in {"b", "B", "1"}

\* the i flag: characters are compared with their case folded
FoldCase(c) == IF c = "B" THEN "b" ELSE c

\* lines 148-150: #escapeRegex puts a backslash before every metacharacter, so
\* each character of the value matches itself and nothing else
EscapeRegex(value) == [i \in 1..Len(value) |-> [literal |-> value[i]]]

\* \b at the position after the first k characters of s
WordBoundary(s, k) ==
    (k \in 1..Len(s) /\ IsWordChar(s[k]))
        # (k + 1 \in 1..Len(s) /\ IsWordChar(s[k + 1]))

\* (mutant) the pattern without its \b
PatternTest_NoBoundary(atoms, s) ==
    /\ Len(s) >= Len(atoms)
    /\ \A i \in 1..Len(atoms) : FoldCase(s[i]) = FoldCase(atoms[i].literal)

\* lines 160-161 / 164-165: new RegExp('^' + atoms + '\\b', 'i').test(s)
PatternTest(atoms, s) ==
    /\ Len(s) >= Len(atoms)
    /\ \A i \in 1..Len(atoms) : FoldCase(s[i]) = FoldCase(atoms[i].literal)
    /\ WordBoundary(s, Len(atoms))

\* lines 162 / 166: s.replace(pattern, replacement) for a pattern that matched;
\* the replacement holds no "$", so it is inserted as it is
PatternReplace(atoms, s, replacement) ==
    replacement \o SubSeq(s, Len(atoms) + 1, Len(s))

\* lines 152-169: #ensureMentionPrefix(text, robotName); the empty name is the
\* falsy robotName
EnsureMentionPrefix(text, robotName) ==
    IF robotName = <<>> THEN Trim(text)
    ELSE LET trimmed == Trim(text)
             mention == <<"@">> \o robotName
             mentionPattern == EscapeRegex(<<"@">>) \o EscapeRegex(robotName)
             barePattern == EscapeRegex(robotName)
         IN  IF trimmed = <<>> THEN mention
             ELSE IF PatternTest(mentionPattern, trimmed)
             THEN PatternReplace(mentionPattern, trimmed, mention)
             ELSE IF PatternTest(barePattern, trimmed)
             THEN PatternReplace(barePattern, trimmed, mention)
             ELSE mention \o <<" ">> \o trimmed

\* one call of #ensureMentionPrefix: it awaits nothing and returns at once
CallEnsureMentionPrefix(t, text, robotName) ==
    /\ CanCall(t)
    /\ task' = [task EXCEPT ![t] =
                  [IdleTask EXCEPT !.op = "ensureMentionPrefix", !.pc = "done",
                                   !.args = [text |-> text, robotName |-> robotName],
                                   !.out = EnsureMentionPrefix(text, robotName)]]
    /\ UNCHANGED <<conversationReferences, lastObserved>>

\* ------------------------------------------------ inbound normalization
\* The text of an inbound activity after stripMentionsText, as a sequence of
\* characters and of the tokens a pattern of lines 189-197 looks for: the
\* newline, the two characters backslash and n (written "\\n"), and the tags
\* "<at>" and "</at>".
RawChars == {"b", "B", "@", " ", "\n", "\\n", "<at>", "</at>"}
RawTexts == UNION {[1..n -> RawChars] : n \in 0..MaxRaw}

\* robot.name and robot.alias: a name of at most one character; the alias may
\* also be left unset or be switched off with false
Undefined == <<"undefined">>
False == <<"false">>
ShortNames == {<<>>} \cup {<<c>> : c \in NameChars}
Aliases == {Undefined, False} \cup ShortNames

\* line 172: (alias == false ? undefined : alias) ?? name; the empty string is
\* loosely equal to false
EffectiveName(name, alias) ==
    IF alias \in {False, <<>>, Undefined} THEN name ELSE alias

\* line 189: .replace(/^\r?\n/, '')
DropLeadingNewline(s) == IF s # <<>> /\ s[1] = "\n" THEN Tail(s) ELSE s

\* line 190: .replace(/\\n$/, '')
DropTrailingEscape(s) ==
    IF s # <<>> /\ s[Len(s)] = "\\n" THEN SubSeq(s, 1, Len(s) - 1) ELSE s

\* the first "</at>" after position i with no newline before it, or 0
ClosingAt(s, i) ==
    LET js == {j \in (i + 1)..Len(s) :
                  /\ s[j] = "</at>"
                  /\ \A k \in (i + 1)..(j - 1) : s[k] # "\n"}
    IN  IF js = {} THEN 0 ELSE CHOOSE j \in js : \A k \in js : j <= k

\* line 197: .replace(/<at>(.*?)<\/at>/gi, '$1')
RECURSIVE CollapseAt(_)
CollapseAt(s) ==
    IF s = <<>> THEN <<>>
    ELSE IF s[1] = "<at>" /\ ClosingAt(s, 1) # 0
    THEN SubSeq(s, 2, ClosingAt(s, 1) - 1)
             \o CollapseAt(SubSeq(s, ClosingAt(s, 1) + 1, Len(s)))
    ELSE <<s[1]>> \o CollapseAt(Tail(s))

\* (mutant) only a detected mention calls for the prefix
ShouldPrefix_MentionOnly(isPersonal, mentionDetected, robotName, normalizedText) ==
    mentionDetected /\ robotName # <<>> /\ Len(normalizedText) > 0

\* line 204: (isPersonal || mentionDetected) && robotName && normalizedText.length > 0
ShouldPrefix(isPersonal, mentionDetected, robotName, normalizedText) ==
    (isPersonal \/ mentionDetected) /\ robotName # <<>> /\ Len(normalizedText) > 0

\* lines 171-210: the text #normalizeIncomingActivity leaves on an activity
\* object whose text (mention tags of the recipient stripped) is `text`
NormalizedText(text, isPersonal, botMention, name, alias) ==
    LET robotName == EffectiveName(name, alias)
        first == Trim(DropTrailingEscape(DropLeadingNewline(text)))
        tagged == \E i \in 1..Len(first) : first[i] = "<at>"
        normalizedText == IF tagged THEN CollapseAt(first) ELSE first
        mentionDetected == tagged \/ botMention
    IN  IF ShouldPrefix(isPersonal, mentionDetected, robotName, normalizedText)
        THEN EnsureMentionPrefix(normalizedText, robotName)
        ELSE normalizedText

\* one call of #normalizeIncomingActivity on an activity object
CallNormalizeIncomingActivity(t, text, isPersonal, botMention, name, alias) ==
    /\ CanCall(t)
    /\ task' = [task EXCEPT ![t] =
                  [IdleTask EXCEPT
                      !.op = "normalizeIncomingActivity", !.pc = "done",
                      !.args = [text |-> text, isPersonal |-> isPersonal,
                                botMention |-> botMention, name |-> name,
                                alias |-> alias],
                      !.out = NormalizedText(text, isPersonal, botMention, name, alias)]]
    /\ UNCHANGED <<conversationReferences, lastObserved>>

\* ------------------------------------------------------------------ run()
\* lines 218-222: a POST arrives; the body is normalized and handed to
\* client.process
PostReceive(t, c) ==
    /\ CanCall(t)
    /\ task' = [task EXCEPT ![t] =
                  [IdleTask EXCEPT !.op = "post", !.pc = "processing", !.conv = c]]
    /\ UNCHANGED <<conversationReferences, lastObserved>>

\* lines 218-222: a POST arrives from a channel: its activity, which is also
\* the room descriptor scripts get for it, carries channelData.channel.id = ch
\* beside conversation.id = c
ChannelPostReceive(t, c, ch) ==
    /\ CanCall(t)
    /\ task' = [task EXCEPT ![t] =
                  [IdleTask EXCEPT !.op = "post", !.pc = "processing", !.conv = c,
                                   !.room = ch]]
    /\ UNCHANGED <<conversationReferences, lastObserved>>

\* line 219: a POST arrives and #normalizeIncomingActivity throws on its body
\* (a text that is not a string has no replace method, line 189).  The call is
\* outside the try of line 221: the handler's promise rejects and neither
\* res.status(200) nor res.status(500) is reached.
NormalizeThrows(t) ==
    /\ CanCall(t)
    /\ task' = [task EXCEPT ![t] =
                  [IdleTask EXCEPT !.op = "post", !.pc = "raised", !.error = "normalize"]]
    /\ UNCHANGED <<conversationReferences, lastObserved>>

\* lines 229-231: process rejects before the turn callback runs
ProcessThrows(t) ==
    /\ task[t].pc = "processing"
    /\ task' = [task EXCEPT ![t].pc = "done", ![t].http = Append(@, 500)]
    /\ UNCHANGED <<conversationReferences, lastObserved>>

\* (mutant) the reference is not stored before the handler runs
IngressStore_Skip(refs, c, r) == refs

\* lines 224-225: the ingress write, keyed by context.activity.conversation.id
IngressStore(refs, c, r) == [refs EXCEPT ![c] = r]

\* lines 222-226: the turn callback runs up to its await of activityHandler.run
ProcessCallback(t) ==
    /\ task[t].pc = "processing"
    /\ conversationReferences' =
           IngressStore(conversationReferences, task[t].conv,
                        IngressReference(task[t].conv, t))
    /\ lastObserved' =
           [lastObserved EXCEPT ![task[t].conv] = IngressReference(task[t].conv, t)]
    /\ task' = [task EXCEPT ![t].pc = "handling"]

\* lines 226-228: the activity handler returns and the endpoint answers 200
HandlerReturns(t) ==
    /\ task[t].pc = "handling"
    /\ task' = [task EXCEPT ![t].pc = "done", ![t].http = Append(@, 200)]
    /\ UNCHANGED <<conversationReferences, lastObserved>>

\* lines 226-231: the activity handler throws; process either rejects with it
\* (caught at the endpoint, answered 500) or handles it as a turn error
HandlerThrows(t, propagates) ==
    /\ task[t].pc = "handling"
    /\ task' = [task EXCEPT ![t].pc = "done", ![t].error = "handler",
                            ![t].http = IF propagates THEN Append(@, 500) ELSE @]
    /\ UNCHANGED <<conversationReferences, lastObserved>>

\* (mutant) the upgrade callback stores the turn's reference as the POST callback does
UpgradeTurn_Stores(refs, c, t) == [refs EXCEPT ![c] = IngressReference(c, t)]

\* line 236: the upgrade callback only runs the activity handler; the cache
\* after it is the cache before it
UpgradeTurn(refs, c, t) == refs

\* lines 234-236: a connection upgrade is handed to client.process
UpgradeReceive(t, c) ==
    /\ CanCall(t)
    /\ task' = [task EXCEPT ![t] =
                  [IdleTask EXCEPT !.op = "upgrade", !.pc = "upgrading", !.conv = c]]
    /\ UNCHANGED <<conversationReferences, lastObserved>>

\* line 236: the upgraded turn ends, with or without an exception
UpgradeEnds(t, ok) ==
    /\ task[t].pc = "upgrading"
    /\ task' = [task EXCEPT ![t].pc = IF ok THEN "done" ELSE "raised",
                            ![t].error = IF ok THEN "none" ELSE "handler"]
    /\ conversationReferences' =
           UpgradeTurn(conversationReferences, task[t].conv, t)
    /\ UNCHANGED lastObserved

\* a script (or the handler of a turn) calls send, reply or sendToRoom
Outbound(t) ==
    \/ \E room \in Ids, strs \in StringLists : CallSendToRoom(t, room, strs)
    \/ \E room \in {0} \cup Ids, user \in BOOLEAN, strs \in StringLists :
           CallSend(t, room, user, strs)
    \/ \E room \in {0} \cup Ids, user \in BOOLEAN, strs \in StringLists :
           CallReply(t, room, user, strs)

\* a request reaches one of the two handlers registered by run()
Inbound(t) ==
    \/ \E c \in Ids : PostReceive(t, c)
    \/ \E c \in Ids, ch \in Ids : ChannelPostReceive(t, c, ch)
    \/ NormalizeThrows(t)
    \/ \E c \in Ids : UpgradeReceive(t, c)

\* a pending await of an outbound invocation settles
ContinueOutbound(t) ==
    \/ CreateThrows(t)
    \/ \E c \in Ids : CreateConfirmed(t, c)
    \/ \E o \in SendOutcomes, p \in BOOLEAN : SeedSent(t, o, p)
    \/ ResumeThrows(t)
    \/ Resumed(t)
    \/ StartSend(t)
    \/ \E k \in 1..MaxLen, o \in SendOutcomes : CompleteSend(t, k, o)
    \/ FinishRoom(t)
    \/ FinishDirect(t)

\* a pending await of the POST handler settles
ContinuePost(t) ==
    \/ ProcessThrows(t)
    \/ ProcessCallback(t)
    \/ HandlerReturns(t)
    \/ \E p \in BOOLEAN : HandlerThrows(t, p)

\* the await of the upgrade handler settles
ContinueUpgrade(t) == \E ok \in BOOLEAN : UpgradeEnds(t, ok)

Next ==
    \E t \in Tasks :
        \/ Outbound(t)
        \/ Inbound(t)
        \/ ContinueOutbound(t)
        \/ ContinuePost(t)
        \/ ContinueUpgrade(t)

Spec == Init /\ [][Next]_vars

\* One outbound invocation against POST traffic: the last invocation of the
\* run is a send, reply or sendToRoom, called after the POST requests have
\* arrived; their turns go on while it runs.  It meets every cache content and
\* every platform outcome, without a second outbound invocation beside it.
NextOutbound ==
    \E t \in Tasks :
        \/ t = MaxTasks /\ Outbound(t)
        \/ t < MaxTasks /\ \E c \in Ids : PostReceive(t, c)
        \/ ContinueOutbound(t)
        \/ ContinuePost(t)

SpecOutbound == Init /\ [][NextOutbound]_vars

\* The activity of one string, on each delivery path.  While the handler of a
\* POST in conversation 1 runs, one string out of Texts is replied on the live
\* turn, pushed to room 1 (which the cache knows) or pushed to room 2 (which it
\* does not), and the path hands its first activity to sendActivity.
NextClassify ==
    \/ PostReceive(1, 1)
    \/ ProcessCallback(1)
    \/ /\ task[1].pc = "handling" /\ task[2].pc = "idle"
       /\ \E m \in Texts : CallReply(2, 0, TRUE, <<m>>)
    \/ /\ task[1].pc = "handling" /\ task[2].pc = "idle"
       /\ \E m \in Texts, room \in {1, 2} : CallSendToRoom(2, room, <<m>>)
    \/ Resumed(2)
    \/ CreateConfirmed(2, 2)
    \/ StartSend(2)

SpecClassify == Init /\ [][NextClassify]_vars

\* #ensureMentionPrefix on every text and robot name, and then once more on
\* what it returned, with the same name.
NextMention ==
    \/ /\ task[1].pc = "idle"
       /\ \E text \in MentionTexts, robotName \in RobotNames :
              CallEnsureMentionPrefix(1, text, robotName)
    \/ /\ task[1].op = "ensureMentionPrefix"
       /\ CallEnsureMentionPrefix(2, task[1].out, task[1].args.robotName)

SpecMention == Init /\ [][NextMention]_vars

\* #normalizeIncomingActivity on the activity of one inbound request.
NextNormalize ==
    /\ task[1].pc = "idle"
    /\ \E text \in RawTexts, isPersonal \in BOOLEAN, botMention \in BOOLEAN,
          name \in ShortNames, alias \in Aliases :
           CallNormalizeIncomingActivity(1, text, isPersonal, botMention, name, alias)

SpecNormalize == Init /\ [][NextNormalize]_vars

\* ================================================================ claims
\* the strings of f whose sendActivity has settled, and those that produced a result
Attempted(f) == {f.outcomes[i].msg : i \in 1..Len(f.outcomes)}
Produced(f) == {f.outcomes[i].msg : i \in {j \in 1..Len(f.outcomes) : f.outcomes[j].outcome = "ok"}}
Range(q) == {q[i] : i \in 1..Len(q)}
\* the invocations that deliver string by string: on a live turn or a resumed conversation
Delivering(f) == f.path \in {"direct", "hit"}

RECURSIVE OkResults(_)
OkResults(out) ==
    IF Len(out) = 0 THEN <<>>
    ELSE IF out[1].outcome = "ok" THEN <<out[1].msg>> \o OkResults(Tail(out))
    ELSE OkResults(Tail(out))

\* C1: once a sendToRoom for room R that found no cache entry has created its
\* conversation and returned [], a later sendToRoom for the same room takes the
\* resume path (and creates no conversation), and with one string delivered it
\* returns one result.
C1_SecondCallResumes ==
    /\ [][\A a, b \in Tasks :
            ( /\ task[a].op = "sendToRoom" /\ task[a].path = "miss"
              /\ task[a].pc = "done" /\ task[a].ret = <<>> /\ task[a].created # 0
              /\ task[b].pc = "idle" /\ task'[b].op = "sendToRoom"
              /\ task'[b].room = task[a].room )
            => task'[b].path = "hit"]_vars
    /\ [](\A b \in Tasks :
            ( /\ task[b].path = "hit" /\ task[b].pc = "done"
              /\ Len(task[b].strings) = 1 /\ Produced(task[b]) = {1} )
            => task[b].ret = <<1>>)

\* C2: in the string-by-string paths a throwing sendActivity never ends the
\* invocation: a completed invocation has attempted every string, whichever of
\* them threw, and reports every result the platform produced.
C2_FailureNeverAbortsBatch ==
    \A t \in Tasks :
        Delivering(task[t]) =>
            /\ task[t].error # "send"
            /\ task[t].pc = "done" =>
                   /\ Attempted(task[t]) = 1..Len(task[t].strings)
                   /\ Produced(task[t]) \subseteq Range(task[t].ret)

\* a resumed push of two strings: the first send throws, the second is still
\* attempted and its result is returned
C2_Witness ==
    \E t \in Tasks :
        /\ task[t].pc = "done" /\ task[t].path = "hit"
        /\ Len(task[t].strings) = 2
        /\ task[t].outcomes[1].outcome = "threw"
        /\ task[t].outcomes[2].outcome = "ok"
        /\ task[t].ret = <<2>>

\* C3: within one invocation at most one sendActivity is in flight, it is the
\* one of the string started last, and the strings settle in the caller's order.
C3_OneAtATimeInOrder ==
    \A t \in Tasks :
        /\ Cardinality(task[t].inflight) <= 1
        /\ task[t].inflight \subseteq {task[t].next}
        /\ Len(task[t].outcomes) = task[t].next - Cardinality(task[t].inflight)
        /\ \A i \in 1..Len(task[t].outcomes) : task[t].outcomes[i].msg = i

\* two invocations interleave, each in the middle of its own batch
C3_Witness ==
    \E a, b \in Tasks :
        /\ a # b
        /\ task[a].inflight = {2} /\ task[a].outcomes[1].outcome = "threw"
        /\ task[b].inflight = {1}

C5_MissAlwaysReturnsEmpty ==
    \A t \in Tasks :
        task[t].path = "miss" =>
            /\ task[t].pc # "raised"
            /\ task[t].pc = "done" => task[t].ret = <<>>
\* C6: while the activity handler of an ingress turn runs, the cache holds an
\* entry under the activity's conversation id, so a room push called at that
\* moment for that id takes the resume path.
C6_StoredBeforeHandler ==
    /\ [](\A p \in Tasks :
            task[p].pc = "handling" =>
                /\ conversationReferences[task[p].conv] # NoRef
                /\ conversationReferences[task[p].conv].conv = task[p].conv)
    /\ [][\A p, t \in Tasks :
            ( /\ task[p].pc = "handling"
              /\ task[t].pc = "idle" /\ task'[t].lookups > 0
              /\ task'[t].room = task[p].conv )
            => task'[t].path = "hit"]_vars

\* a room push made while the handler of the turn that wrote the entry is still running
C6_Witness ==
    \E p, t \in Tasks :
        /\ task[p].pc = "handling"
        /\ task[t].path = "hit" /\ task[t].room = task[p].conv
        /\ conversationReferences[task[p].conv] = IngressReference(task[p].conv, p)
        /\ \A u \in Tasks \ {p} : task[u].op # "post" /\ task[u].created = 0

\* C7 (as claimed): send takes the room-push path exactly when envelope.room is
\* present and envelope.user absent, and in every other case delivers on the
\* live turn without looking the cache up.
C7_SendRoutes ==
    \A t \in Tasks :
        (task[t].op = "send" /\ task[t].pc # "idle") =>
            IF task[t].room # 0 /\ ~task[t].user
            THEN task[t].path \in {"hit", "miss"}
            ELSE task[t].path = "direct" /\ task[t].lookups = 0

\* C7 (amended): send takes the room-push path exactly when envelope.room is
\* present and envelope.user absent; with envelope.user present it delivers
\* every string on the live turn and never looks the cache up; with neither
\* present it raises before any delivery or lookup.
C7_SendRoutesOrRaises ==
    \A t \in Tasks :
        (task[t].op = "send" /\ task[t].pc # "idle") =>
            /\ task[t].path \in {"hit", "miss"} <=> (task[t].room # 0 /\ ~task[t].user)
            /\ task[t].user =>
                   /\ task[t].path = "direct" /\ task[t].lookups = 0
                   /\ task[t].pc \in {"loop", "done"}
                   /\ task[t].pc = "done" =>
                          Attempted(task[t]) = 1..Len(task[t].strings)
            /\ (task[t].room = 0 /\ ~task[t].user) =>
                   /\ task[t].pc = "raised" /\ task[t].error = "type"
                   /\ task[t].path = "none" /\ task[t].lookups = 0
                   /\ task[t].next = 0

\* an envelope with room and user delivered on the live turn while the cache
\* holds an entry for that room
C7_Witness ==
    \E t \in Tasks :
        /\ task[t].op = "send" /\ task[t].room # 0 /\ task[t].user
        /\ task[t].pc = "done" /\ task[t].ret = <<1, 2>>
        /\ conversationReferences[task[t].room] # NoRef

\* C8 (as claimed): every send, sendToRoom or reply that returned has emitted
\* exactly one event, `reply` for reply and `send` otherwise, with the results
\* it returned.
C8_OneEventPerCall ==
    \A t \in Tasks :
        (task[t].pc = "done" /\ task[t].op \in {"send", "sendToRoom", "reply"}) =>
            /\ Len(task[t].emitted) = 1
            /\ task[t].emitted[1].name = (IF task[t].op = "reply" THEN "reply" ELSE "send")
            /\ task[t].emitted[1].results = task[t].ret

\* C8 (amended): an invocation that returned after delivering string by string
\* has emitted exactly one event: `reply` for reply, `send` for send and
\* sendToRoom, with the envelope (the { room } literal on a room push) and the
\* results it returned; one that returned from the cache-miss path, and one that
\* has not returned, has emitted nothing.
C8_OneEventUnlessMiss ==
    \A t \in Tasks :
        /\ (task[t].pc = "done" /\ Delivering(task[t])) =>
               /\ Len(task[t].emitted) = 1
               /\ task[t].emitted[1].name = (IF task[t].op = "reply" THEN "reply" ELSE "send")
               /\ task[t].emitted[1].results = task[t].ret
               /\ task[t].emitted[1].desc =
                      (IF task[t].path = "hit" THEN RoomOnly(task[t]) ELSE Envelope(task[t]))
        /\ (task[t].pc # "done" \/ ~Delivering(task[t])) => task[t].emitted = <<>>

\* a reply that returned one result of two strings and emitted it
C8_Witness ==
    \E t \in Tasks :
        /\ task[t].op = "reply" /\ task[t].pc = "done"
        /\ task[t].ret = <<2>>
        /\ task[t].emitted = <<[name |-> "reply", desc |-> Envelope(task[t]),
                                results |-> <<2>>]>>

\* C9: the cache entry of every conversation id is what the latest observation
\* of that id wrote (an id never observed has none), and no step removes an entry.
C9_LastWriteWins ==
    /\ [](\A c \in Ids : conversationReferences[c] = lastObserved[c])
    /\ [][\A c \in Ids :
            conversationReferences[c] # NoRef => conversationReferences'[c] # NoRef]_vars

\* an entry written at ingress, overwritten by a later conversation creation
C9_Witness ==
    \E a, b \in Tasks :
        /\ a # b
        /\ task[a].op = "post" /\ task[a].pc = "done" /\ task[a].http = <<200>>
        /\ task[b].created = task[a].conv
        /\ conversationReferences[task[a].conv] = CreatedConversation(task[a].conv, b)

\* C10: the cache changes only in the ingress turn callback and in the
\* confirmation callback of a conversation creation, and only the head of
\* sendToRoom looks it up: reply and direct-turn send never do, and the steps
\* of a resumed conversation and of an upgraded connection leave it as it is.
C10_TwoWritersOneReader ==
    /\ [][conversationReferences' # conversationReferences =>
            \E t \in Tasks :
                \/ task[t].pc = "processing" /\ task'[t].pc = "handling"
                \/ task[t].pc = "creating" /\ task'[t].pc = "seeding"]_vars
    /\ [](\A t \in Tasks :
            task[t].lookups > 0 =>
                /\ task[t].op \in {"send", "sendToRoom"}
                /\ task[t].path \in {"hit", "miss"}
                /\ task[t].lookups = 1)

\* a resumed push has delivered and returned, and the entry it resumed is still
\* the one the ingress turn of the other invocation wrote
C10_Witness ==
    \E a, b \in Tasks :
        /\ a # b
        /\ task[a].path = "hit" /\ task[a].pc = "done" /\ task[a].ret = <<1, 2>>
        /\ task[b].op = "post" /\ task[b].pc = "done"
        /\ conversationReferences[task[a].room] = IngressReference(task[a].room, b)

Rendered(a) ==
    IF a.kind = "text" /\ a.textFormat = "unset"
    THEN [a EXCEPT !.textFormat = "markdown"] ELSE a

\* C13 (as stated): on every delivery path - live turn, resumed conversation,
\* newly created conversation - what the platform is handed is the
\* classification of each string, one activity per string in order.
C13_SamePayloadsOnEveryPath ==
    \A t \in Tasks :
        task[t].path \in {"direct", "hit", "miss"} =>
            /\ Len(task[t].sent) <= Len(task[t].strings)
            /\ \A i \in 1..Len(task[t].sent) :
                   Rendered(task[t].sent[i]) = TeamsMessage(task[t].strings[i])

\* C13 (amended): the live turn and the resumed conversation hand the platform
\* the classification of each string taken so far, in order; the cache-miss
\* path classifies nothing: both the seed activity of the new conversation and
\* the one activity sent from the confirmation callback are plain text holding
\* all the strings joined by newlines.
C13_LoopsClassifyMissJoins ==
    \A t \in Tasks :
        /\ Delivering(task[t]) =>
               /\ Len(task[t].sent) = task[t].next
               /\ \A i \in 1..Len(task[t].sent) :
                      task[t].sent[i] = TeamsMessage(task[t].strings[i])
        /\ task[t].path = "miss" =>
               /\ task[t].seed = Join(task[t].strings)
               /\ task[t].sent =
                      IF task[t].created # 0
                      THEN <<TextActivity(Join(task[t].strings), "unset")>>
                      ELSE <<>>

\* a cache-miss push of two strings, the first of them JSON, has sent its one
\* joined text activity
C13_Witness ==
    \E t \in Tasks :
        /\ task[t].path = "miss"
        /\ task[t].pc = "done"
        /\ Len(task[t].strings) = 2
        /\ JsonParse(task[t].strings[1]) # SyntaxError
        /\ Len(task[t].sent) = 1
        /\ task[t].sent[1].kind = "text"
        /\ Len(task[t].sent[1].text) =
               Len(task[t].strings[1]) + 1 + Len(task[t].strings[2])

\* C14: every POST is answered exactly once by the endpoint: once its handler
\* has ended, one response (200 or 500) has been sent, and at no time more
\* than one.
C14_AnsweredExactlyOnce ==
    \A t \in Tasks :
        task[t].op = "post" =>
            /\ Len(task[t].http) <= 1
            /\ task[t].pc \in {"done", "raised"} =>
                   /\ Len(task[t].http) = 1
                   /\ task[t].http[1] \in {200, 500}

StartsWith(s, prefix) ==
    Len(s) >= Len(prefix) /\ SubSeq(s, 1, Len(prefix)) = prefix

\* the trimmed string is @r, or begins with @r and has a word boundary after it
CarriesMention(s, r) ==
    LET o == Trim(s)
        m == <<"@">> \o r
    IN  \/ o = m
        \/ StartsWith(o, m) /\ WordBoundary(o, Len(m))

\* C15 (as stated): for every robot name r and text t, what
\* ensureMentionPrefix(t, r) returns is, trimmed, @r or @r followed by a word
\* boundary.
C15_AlwaysCarriesMention ==
    \A t \in Tasks :
        task[t].op = "ensureMentionPrefix" =>
            CarriesMention(task[t].out, task[t].args.robotName)

\* C15 (amended): the same, for the robot names that are not empty and end in
\* a word character; with the empty (falsy) name the text comes back trimmed
\* and otherwise unchanged.
C15_CarriesMentionOfWordName ==
    \A t \in Tasks :
        task[t].op = "ensureMentionPrefix" =>
            LET r == task[t].args.robotName IN
            /\ (r # <<>> /\ IsWordChar(r[Len(r)])) => CarriesMention(task[t].out, r)
            /\ r = <<>> => task[t].out = Trim(task[t].args.text)

\* a text that names the robot in another case, without the "@", came back
\* carrying the canonical mention
C15_Witness ==
    \E t \in Tasks :
        /\ task[t].op = "ensureMentionPrefix"
        /\ task[t].args.robotName = <<"B">>
        /\ task[t].args.text = <<" ", "b", " ", "b">>
        /\ task[t].out = <<"@", "B", " ", "b">>

\* C16: ensureMentionPrefix(ensureMentionPrefix(t, r), r) equals
\* ensureMentionPrefix(t, r): a second application to the first one's result,
\* with the same name, returns that result.
C16_Idempotent ==
    \A t \in Tasks, u \in Tasks :
        (/\ task[t].op = "ensureMentionPrefix"
         /\ task[u].op = "ensureMentionPrefix"
         /\ task[u].args = [text |-> task[t].out, robotName |-> task[t].args.robotName])
            => task[u].out = task[t].out

\* the name the prefix is built from: the alias when one is set and not
\* switched off, the robot name otherwise
CanonicalName(a) ==
    IF a.alias \notin {Undefined, False, <<>>} THEN a.alias ELSE a.name

Stored(f) ==
    /\ f.op = "post"
    /\ \/ f.pc = "handling"
       \/ f.pc = "done" /\ (f.http = <<200>> \/ f.error = "handler")

\* C18: once an activity of a channel conversation has been stored at ingress,
\* or a conversation created for a room has been confirmed, a sendToRoom
\* addressed to the room of that activity (that room) finds the cache entry and
\* resumes: it never takes the creation path.
C18_LookupUnderWriteKey ==
    [][\A a, b \in Tasks :
          ( /\ \/ Stored(task[a]) /\ task[a].room # 0
               \/ task[a].path = "miss" /\ task[a].created # 0
            /\ task[b].pc = "idle" /\ task'[b].lookups > 0
            /\ task'[b].room = task[a].room )
          => task'[b].path = "hit"]_vars

\* the confirmation callback of a runs in this step, after a sendToRoom b for
\* the same room took the creation path and was confirmed; when b was called
\* after a, it was called while a was suspended in its creation
ConfirmsAfter(a, b) ==
    /\ a # b
    /\ task[a].pc = "creating" /\ task'[a].pc = "seeding"
    /\ task[b].path = "miss" /\ task[b].room = task[a].room
    /\ task[b].created # 0

====
